---------------------------- MODULE Spec2Model ----------------------------
(***************************************************************************)
(* A model of the rendering engine of src/src/main.rs: the colour utility  *)
(* (darken, get_seasonal_color), the heatmap renderer (draw_3d_heatmap),   *)
(* the donut renderer (draw_donut_chart) and the radar renderer            *)
(* (draw_radar_chart).                                                     *)
(*                                                                         *)
(* Representation choices.                                                 *)
(*  - A Rust string is a sequence of one-character strings.                *)
(*  - An f64 factor is a rational <<num, den>> and an f64 angle is a       *)
(*    fraction of the full turn (2*pi) with an explicit denominator;       *)
(*    the non-finite f64 values (NaN, +inf, -inf) are kept as such.        *)
(*  - An i32 magnitude of the donut is counted in units of 2^29, so that   *)
(*    the i32 range is -4..3 units and i32 addition wraps modulo 8 units.  *)
(*    The ratio size/total does not depend on the unit.                    *)
(*  - log10 is computed in half-decades (floor(2*log10 n)).                *)
(***************************************************************************)
EXTENDS Integers, Sequences, FiniteSets, TLC

VARIABLES
    \* darken
    d_hex, d_amount, d_out, d_pc,
    \* draw_3d_heatmap
    weeks, hx, hy, hg, hpc,
    \* draw_donut_chart
    lang_stats, iter_order, sorted_langs, total, current_angle, di, dg, dpc,
    call, first_dg,
    \* draw_radar_chart
    stats, ri, data_points, rg, rpc

vars == <<d_hex, d_amount, d_out, d_pc, weeks, hx, hy, hg, hpc,
          lang_stats, iter_order, sorted_langs, total, current_angle, di, dg,
          dpc, call, first_dg, stats, ri, data_points, rg, rpc>>

darkenVars == <<d_hex, d_amount, d_out, d_pc>>
heatVars   == <<weeks, hx, hy, hg, hpc>>
donutVars  == <<lang_stats, iter_order, sorted_langs, total, current_angle,
                di, dg, dpc, call, first_dg>>
radarVars  == <<stats, ri, data_points, rg, rpc>>

-----------------------------------------------------------------------------
(* Bounds of the model. *)

\* the most '#' characters in front of a colour string
MaxHashes == 2
\* the most characters after the sixth of a colour string
MaxExtra == 1
\* the most weeks of a calendar grid (week indices 0 .. MaxWeeks-1)
MaxWeeks == 41
\* the most days of one week
MaxDays == 7
\* the number of category names a CategoryStat draws its keys from
MaxLangs == 3

-----------------------------------------------------------------------------
(* Strings and numbers. *)

Min(a, b) == IF a <= b THEN a ELSE b
Max(a, b) == IF a >= b THEN a ELSE b

RECURSIVE SumSeq(_)
SumSeq(s) == IF s = <<>> THEN 0 ELSE Head(s) + SumSeq(Tail(s))

HexDigits == <<"0", "1", "2", "3", "4", "5", "6", "7",
               "8", "9", "a", "b", "c", "d", "e", "f">>

UpperHex == <<"A", "B", "C", "D", "E", "F">>

IsLowerHex(c) == \E k \in 1..16 : HexDigits[k] = c
IsUpperHex(c) == \E k \in 1..6 : UpperHex[k] = c
IsHexDigit(c) == IsLowerHex(c) \/ IsUpperHex(c)

\* char::to_digit(16): the value of a hex digit, either case
HexVal(c) ==
    IF IsLowerHex(c) THEN (CHOOSE k \in 1..16 : HexDigits[k] = c) - 1
    ELSE (CHOOSE k \in 1..6 : UpperHex[k] = c) + 9

\* format!("{:02x}", v) for a u8 v
Hex2(v) == <<HexDigits[(v \div 16) + 1], HexDigits[(v % 16) + 1]>>

\* str::trim_start_matches('#'): every leading '#' is removed
RECURSIVE TrimStartMatches(_)
TrimStartMatches(s) ==
    IF s # <<>> /\ Head(s) = "#" THEN TrimStartMatches(Tail(s)) ELSE s

\* &hex[a..b] on an ASCII string (0-based, b exclusive); the caller checks
\* b <= Len(hex), where the slice would panic
Slice(s, a, b) == SubSeq(s, a + 1, b)

\* u8::from_str_radix(s, 16) of a two-character slice: Ok(v) is v, Err is -1.
\* An unsigned parse accepts one leading '+' in front of the digits.
FromStrRadix16(s) ==
    IF IsHexDigit(s[1]) /\ IsHexDigit(s[2]) THEN 16 * HexVal(s[1]) + HexVal(s[2])
    ELSE IF s[1] = "+" /\ IsHexDigit(s[2]) THEN HexVal(s[2])
    ELSE -1

\* (v as f64 * amount) as u8, amount = num/den >= 0: the product is truncated
\* and the cast saturates at the ends of 0..255
ScaleU8Rounded(v, amount) ==
    Max(0, Min(255, (2 * v * amount[1] + amount[2]) \div (2 * amount[2])))

ScaleU8(v, amount) ==
    Max(0, Min(255, (v * amount[1]) \div amount[2]))

\* one channel of darken: parse, unwrap_or(200), scale
DarkenChannel(s, amount) ==
    LET p == FromStrRadix16(s) IN ScaleU8(IF p < 0 THEN 200 ELSE p, amount)

\* darken(hex, amount): the returned string, or a panic where a slice
\* &hex[a..b] reaches past the end of the trimmed string
Darken(hexIn, amount) ==
    LET hex == TrimStartMatches(hexIn) IN
    IF Len(hex) < 6 THEN [panic |-> TRUE, val |-> <<>>]
    ELSE [panic |-> FALSE,
          val   |-> <<"#">> \o Hex2(DarkenChannel(Slice(hex, 0, 2), amount))
                            \o Hex2(DarkenChannel(Slice(hex, 2, 4), amount))
                            \o Hex2(DarkenChannel(Slice(hex, 4, 6), amount))]

\* get_seasonal_color(week_idx, count)
GetSeasonalColorOffByOne(week_idx, count) ==
    IF count = 0 THEN <<"#", "e", "b", "e", "d", "f", "0">>
    ELSE IF week_idx <= 13 THEN <<"#", "c", "6", "e", "4", "8", "b">>
    ELSE IF week_idx <= 25 THEN <<"#", "f", "4", "e", "0", "4", "d">>
    ELSE IF week_idx <= 38 THEN <<"#", "a", "3", "a", "3", "a", "3">>
    ELSE <<"#", "d", "1", "a", "3", "d", "1">>

GetSeasonalColor(week_idx, count) ==
    IF count = 0 THEN <<"#", "e", "b", "e", "d", "f", "0">>
    ELSE IF week_idx <= 12 THEN <<"#", "c", "6", "e", "4", "8", "b">>
    ELSE IF week_idx <= 25 THEN <<"#", "f", "4", "e", "0", "4", "d">>
    ELSE IF week_idx <= 38 THEN <<"#", "a", "3", "a", "3", "a", "3">>
    ELSE <<"#", "d", "1", "a", "3", "d", "1">>

-----------------------------------------------------------------------------
(* The inputs. *)

\* the f64 factors, as <<num, den>>: 0.5, 0.6, 0.8, 1.0 and 1.5
Factors == {<<1, 2>>, <<3, 5>>, <<4, 5>>, <<1, 1>>, <<3, 2>>}

\* two-character channel texts: hex digits of either case, and malformed ones
ChannelTexts == {<<"0", "0">>, <<"f", "f">>, <<"c", "6">>, <<"8", "B">>,
                 <<"z", "z">>, <<"+", "f">>}

Hashes(k) == [i \in 1..k |-> "#"]
Extras(k) == [i \in 1..k |-> "0"]

NotAColor == <<"n", "o", "t", "-", "a", "-", "c", "o", "l", "o", "r">>

\* colour strings: up to MaxHashes '#', three channel texts and up to
\* MaxExtra more characters, cut to any length; and "not-a-color"
ColourStrings ==
    { Hashes(k) \o SubSeq(a \o b \o c \o Extras(MaxExtra), 1, n) :
        k \in 0..MaxHashes, a \in ChannelTexts, b \in ChannelTexts,
        c \in ChannelTexts, n \in 0..(6 + MaxExtra) }
    \cup {NotAColor}

\* the contribution counts of a day
Counts == {0, 3}

\* the calendar grid of n weeks in which week x (from 0) has lens[x mod 2]
\* days (none, one or MaxDays) and day y of it has count cnts[(x + y) mod 2]
Grid(n, lens, cnts) ==
    [x \in 1..n |->
        [y \in 1..lens[((x - 1) % 2) + 1] |-> cnts[((x + y) % 2) + 1]]]

Grids ==
    { Grid(n, lens, cnts) :
        n \in 0..MaxWeeks, lens \in [1..2 -> {0, 1, MaxDays}], cnts \in [1..2 -> Counts] }

-----------------------------------------------------------------------------
(* darken *)

DarkenInit ==
    /\ d_hex \in ColourStrings
    /\ d_amount \in Factors
    /\ d_out = <<>>
    /\ d_pc = "ready"

DarkenIdle ==
    /\ d_hex = <<>>
    /\ d_amount = <<1, 1>>
    /\ d_out = <<>>
    /\ d_pc = "idle"

\* one call of darken(d_hex, d_amount)
DarkenCall ==
    /\ d_pc = "ready"
    /\ LET r == Darken(d_hex, d_amount) IN
         /\ d_pc' = IF r.panic THEN "panicked" ELSE "returned"
         /\ d_out' = r.val
    /\ UNCHANGED <<d_hex, d_amount>>
    /\ UNCHANGED <<heatVars, donutVars, radarVars>>

-----------------------------------------------------------------------------
(* draw_3d_heatmap *)

HeatInit ==
    /\ weeks \in Grids
    /\ hx = 0
    /\ hy = 0
    /\ hg = <<>>
    /\ hpc = "loop"

HeatIdle ==
    /\ weeks = <<>>
    /\ hx = 0
    /\ hy = 0
    /\ hg = <<>>
    /\ hpc = "idle"

\* a Polygon of the heatmap: its face, its cell, the bar height and the fill
Face(face, x, y, h, fill) ==
    [face |-> face, x |-> x, y |-> y, h |-> h, fill |-> fill]

\* the three polygons of the cell (x, y) with the given count, in the order
\* they are added to the group; <<>> with panic where darken panics
CellFacesTopFirst(x, y, count) ==
    LET h     == Max(count * 5, 2)
        color == GetSeasonalColor(x, count)
        left  == Darken(color, <<4, 5>>)
        right == Darken(color, <<3, 5>>)
    IN  [panic |-> left.panic \/ right.panic,
         faces |-> <<Face("top", x, y, h, color),
                     Face("left", x, y, h, left.val),
                     Face("right", x, y, h, right.val)>>]

CellFaces(x, y, count) ==
    LET h     == Max(count * 5, 2)
        color == GetSeasonalColor(x, count)
        left  == Darken(color, <<4, 5>>)
        right == Darken(color, <<3, 5>>)
    IN  [panic |-> left.panic \/ right.panic,
         faces |-> <<Face("left", x, y, h, left.val),
                     Face("right", x, y, h, right.val),
                     Face("top", x, y, h, color)>>]

\* one iteration of the inner loop: the day hy of the week hx
HeatmapCellSkipZero ==
    /\ hpc = "loop"
    /\ hx < Len(weeks)
    /\ hy < Len(weeks[hx + 1])
    /\ LET count == weeks[hx + 1][hy + 1]
           c     == CellFaces(hx, hy, count)
       IN  /\ hpc' = IF c.panic THEN "panicked" ELSE "loop"
           /\ hg' = IF c.panic \/ count = 0 THEN hg ELSE hg \o c.faces
    /\ hy' = hy + 1
    /\ UNCHANGED <<weeks, hx>>
    /\ UNCHANGED <<darkenVars, donutVars, radarVars>>

HeatmapCell ==
    /\ hpc = "loop"
    /\ hx < Len(weeks)
    /\ hy < Len(weeks[hx + 1])
    /\ LET count == weeks[hx + 1][hy + 1]
           c     == CellFaces(hx, hy, count)
       IN  /\ hpc' = IF c.panic THEN "panicked" ELSE "loop"
           /\ hg' = IF c.panic THEN hg ELSE hg \o c.faces
    /\ hy' = hy + 1
    /\ UNCHANGED <<weeks, hx>>
    /\ UNCHANGED <<darkenVars, donutVars, radarVars>>

\* the inner loop is exhausted: the outer loop takes the next week
HeatmapNextWeek ==
    /\ hpc = "loop"
    /\ hx < Len(weeks)
    /\ hy = Len(weeks[hx + 1])
    /\ hx' = hx + 1
    /\ hy' = 0
    /\ UNCHANGED <<weeks, hg, hpc>>
    /\ UNCHANGED <<darkenVars, donutVars, radarVars>>

\* the outer loop is exhausted: the group is returned
HeatmapReturn ==
    /\ hpc = "loop"
    /\ hx = Len(weeks)
    /\ hpc' = "done"
    /\ UNCHANGED <<weeks, hx, hy, hg>>
    /\ UNCHANGED <<darkenVars, donutVars, radarVars>>

-----------------------------------------------------------------------------
(* draw_donut_chart *)

LangPool == <<"Go", "Rust", "C", "Zig">>

Langs == {LangPool[k] : k \in 1..MaxLangs}

\* the non-negative i32 magnitudes, in units of 2^29
Magnitudes == 0..3

\* the CategoryStat mappings: a magnitude for each key (the colour of a
\* category plays no part in the layout and is left out)
CategoryStats == UNION {[S -> Magnitudes] : S \in SUBSET Langs}

\* the sequences in which HashMap::into_iter can yield the entries of m
IterOrders(m) ==
    {o \in [1..Cardinality(DOMAIN m) -> DOMAIN m] :
        \A a, b \in 1..Cardinality(DOMAIN m) : o[a] = o[b] => a = b}

Entry(name, size) == [name |-> name, size |-> size]

\* Vec::sort_by(|a, b| b.1.0.cmp(&a.1.0)): a stable sort, largest size
\* first, entries of equal size left in the order they came in
RECURSIVE InsertDesc(_, _)
InsertDesc(e, s) ==
    IF s = <<>> THEN <<e>>
    ELSE IF Head(s).size >= e.size THEN <<Head(s)>> \o InsertDesc(e, Tail(s))
    ELSE <<e>> \o s

RECURSIVE SortDesc(_)
SortDesc(s) ==
    IF s = <<>> THEN <<>>
    ELSE InsertDesc(s[Len(s)], SortDesc(SubSeq(s, 1, Len(s) - 1)))

\* an i32 in units of 2^29 lies in -4..3; addition wraps modulo 8 units
WrapI32(n) == ((n + 4) % 8) - 4

Sizes(s) == [k \in 1..Len(s) |-> s[k].size]

\* f64 values: a fraction num/den (den # 0), NaN or +infinity
Num(n, d) == [kind |-> "num", num |-> n, den |-> d]
NaN == [kind |-> "nan", num |-> 0, den |-> 1]
Inf == [kind |-> "inf", num |-> 0, den |-> 1]

\* size as f64 / total as f64, for size >= 0
DivF(size, tot) ==
    IF tot # 0 THEN Num(size, tot)
    ELSE IF size = 0 THEN NaN
    ELSE Inf

\* a + b on f64, for b no -infinity
AddF(a, b) ==
    IF a.kind = "nan" \/ b.kind = "nan" THEN NaN
    ELSE IF a.kind = "inf" \/ b.kind = "inf" THEN Inf
    ELSE IF a.den = b.den THEN Num(a.num + b.num, a.den)
    ELSE Num(a.num * b.den + b.num * a.den, a.den * b.den)

\* slice_angle > PI, the angle a fraction of 2*PI: a comparison with a NaN
\* is false
GreaterThanHalf(a) ==
    IF a.kind = "nan" THEN FALSE
    ELSE IF a.kind = "inf" THEN TRUE
    ELSE IF a.den > 0 THEN 2 * a.num > a.den
    ELSE 2 * a.num < a.den

\* a node of the donut group: the Path of a slice, or the Polygon (swatch)
\* or the Text (label) of its legend entry
DonutNode(kind, name, start, angle, large, x, y) ==
    [kind |-> kind, name |-> name, start |-> start, angle |-> angle,
     large_arc |-> large, x |-> x, y |-> y]

DonutInit ==
    /\ lang_stats \in CategoryStats
    /\ iter_order = <<>>
    /\ sorted_langs = <<>>
    /\ total = 0
    /\ current_angle = Num(0, 1)
    /\ di = 0
    /\ dg = <<>>
    /\ dpc = "start"
    /\ call = 1
    /\ first_dg = <<>>

DonutIdle ==
    /\ lang_stats = <<>>
    /\ iter_order = <<>>
    /\ sorted_langs = <<>>
    /\ total = 0
    /\ current_angle = Num(0, 1)
    /\ di = 0
    /\ dg = <<>>
    /\ dpc = "idle"
    /\ call = 1
    /\ first_dg = <<>>

\* the entries are collected in the map's iteration order and sorted, and
\* the magnitudes summed: an i32 sum that overflows panics in a build with
\* overflow checks and wraps in one without
DonutCollectSort ==
    /\ dpc = "start"
    /\ \E o \in IterOrders(lang_stats) :
         /\ iter_order' = o
         /\ sorted_langs' =
                SortDesc([k \in 1..Len(o) |-> Entry(o[k], lang_stats[o[k]])])
    /\ LET sum == SumSeq(Sizes(sorted_langs'))
       IN  \/ /\ total' = WrapI32(sum)
              /\ dpc' = "loop"
           \/ /\ sum # WrapI32(sum)
              /\ total' = total
              /\ dpc' = "panicked"
    /\ current_angle' = Num(0, 1)
    /\ di' = 0
    /\ dg' = <<>>
    /\ UNCHANGED <<lang_stats, call, first_dg>>
    /\ UNCHANGED <<darkenVars, heatVars, radarVars>>

\* one iteration of the loop: the slice and the legend entry of entry di
DonutSlice ==
    /\ dpc = "loop"
    /\ di < Len(sorted_langs)
    /\ LET e           == sorted_langs[di + 1]
           slice_angle == DivF(e.size, total)
           large_arc   == IF GreaterThanHalf(slice_angle) THEN 1 ELSE 0
           col         == di \div 8
           row         == di % 8
           x_off       == 120 + (col * 140)
           y_off       == (row * 22) - 80
       IN  /\ dg' = dg \o
                 <<DonutNode("path", e.name, current_angle, slice_angle,
                             large_arc, 0, 0),
                   DonutNode("swatch", e.name, current_angle, slice_angle,
                             large_arc, x_off, y_off),
                   DonutNode("text", e.name, current_angle, slice_angle,
                             large_arc, x_off + 18, y_off + 10)>>
           /\ current_angle' = AddF(current_angle, slice_angle)
    /\ di' = di + 1
    /\ UNCHANGED <<lang_stats, iter_order, sorted_langs, total, dpc, call,
                   first_dg>>
    /\ UNCHANGED <<darkenVars, heatVars, radarVars>>

\* the loop is exhausted: the group is returned
DonutReturn ==
    /\ dpc = "loop"
    /\ di = Len(sorted_langs)
    /\ dpc' = "done"
    /\ UNCHANGED <<lang_stats, iter_order, sorted_langs, total, current_angle,
                   di, dg, call, first_dg>>
    /\ UNCHANGED <<darkenVars, heatVars, radarVars>>

\* the renderer is called once more on a map of the same content
DonutCallAgain ==
    /\ dpc = "done"
    /\ call = 1
    /\ call' = 2
    /\ first_dg' = dg
    /\ dpc' = "start"
    /\ UNCHANGED <<lang_stats, iter_order, sorted_langs, total, current_angle,
                   di, dg>>
    /\ UNCHANGED <<darkenVars, heatVars, radarVars>>

-----------------------------------------------------------------------------
(* draw_radar_chart *)

\* max_r
MaxR == 110

\* the i32 metric values
MetricValues == {-2, -1, 0, 3, 9998, 9999, 50000}

\* floor(2 * log10(n)) for n >= 1, the count of the q with 10^q <= n^2;
\* 9 stands for every n of 10^4.5 and more
Log10Half(n) ==
    LET m == Min(n, 40000) IN Cardinality({q \in 1..9 : 10^q <= m * m})

\* (val as f64 + 1.0).log10() / 4.0, in eighths: log10 of 0 is -infinity
\* and log10 of a negative number is NaN
ValScaled(val) ==
    IF val + 1 > 0 THEN [kind |-> "num", num |-> Log10Half(val + 1)]
    ELSE IF val + 1 = 0 THEN [kind |-> "neginf", num |-> 0]
    ELSE [kind |-> "nan", num |-> 0]

\* val_scaled.min(1.0) * max_r, in eighths: f64::min of a NaN and 1.0 is 1.0
RadiusUnclamped(val) ==
    LET v == ValScaled(val) IN
    IF v.kind = "nan" THEN [kind |-> "num", num |-> 8 * MaxR]
    ELSE [kind |-> v.kind, num |-> v.num * MaxR]

Radius(val) ==
    LET v == ValScaled(val) IN
    IF v.kind = "nan" THEN [kind |-> "num", num |-> 8 * MaxR]
    ELSE IF v.kind = "neginf" THEN v
    ELSE [kind |-> "num", num |-> Min(v.num, 8) * MaxR]

RadarNode(kind, i, pts) == [kind |-> kind, i |-> i, pts |-> pts]

RadarInit ==
    /\ stats \in [1..5 -> MetricValues]
    /\ ri = 0
    /\ data_points = <<>>
    /\ rg = <<>>
    /\ rpc = "grid"

RadarIdle ==
    /\ stats = <<>>
    /\ ri = 0
    /\ data_points = <<>>
    /\ rg = <<>>
    /\ rpc = "idle"

\* the four reference pentagons, at 0.25, 0.5, 0.75 and 1.0 of max_r
RadarGrid ==
    /\ rpc = "grid"
    /\ rg' = [k \in 1..4 |-> RadarNode("ring", k, <<>>)]
    /\ rpc' = "loop"
    /\ UNCHANGED <<stats, ri, data_points>>
    /\ UNCHANGED <<darkenVars, heatVars, donutVars>>

\* one iteration of the data loop: the vertex and the label of metric ri
RadarVertex ==
    /\ rpc = "loop"
    /\ ri < Len(stats)
    /\ data_points' = Append(data_points, [i |-> ri, r |-> Radius(stats[ri + 1])])
    /\ rg' = Append(rg, RadarNode("label", ri, <<>>))
    /\ ri' = ri + 1
    /\ UNCHANGED <<stats, rpc>>
    /\ UNCHANGED <<darkenVars, heatVars, donutVars>>

\* the data polygon is added and the group returned
RadarFinish ==
    /\ rpc = "loop"
    /\ ri = Len(stats)
    /\ rg' = Append(rg, RadarNode("data", 0, data_points))
    /\ rpc' = "done"
    /\ UNCHANGED <<stats, ri, data_points>>
    /\ UNCHANGED <<darkenVars, heatVars, donutVars>>

-----------------------------------------------------------------------------
(* Specifications: one for each renderer, and the engine as a whole. *)

DarkenNext == DarkenCall

HeatNext == HeatmapCell \/ HeatmapNextWeek \/ HeatmapReturn

DonutNext == DonutCollectSort \/ DonutSlice \/ DonutReturn \/ DonutCallAgain

RadarNext == RadarGrid \/ RadarVertex \/ RadarFinish

InitDarken == DarkenInit /\ HeatIdle /\ DonutIdle /\ RadarIdle

InitHeat == DarkenIdle /\ HeatInit /\ DonutIdle /\ RadarIdle

InitDonut == DarkenIdle /\ HeatIdle /\ DonutInit /\ RadarIdle

InitRadar == DarkenIdle /\ HeatIdle /\ DonutIdle /\ RadarInit

SpecDarken == InitDarken /\ [][DarkenNext]_vars

SpecHeat == InitHeat /\ [][HeatNext]_vars

SpecDonut == InitDonut /\ [][DonutNext]_vars

SpecRadar == InitRadar /\ [][RadarNext]_vars

Init == InitDarken \/ InitHeat \/ InitDonut \/ InitRadar

Next == DarkenNext \/ HeatNext \/ DonutNext \/ RadarNext

Spec == Init /\ [][Next]_vars

-----------------------------------------------------------------------------
(* The claims about darken. *)

\* a colour string as the claims read it: one leading '#' is optional
StripHash(s) == IF s # <<>> /\ Head(s) = "#" THEN Tail(s) ELSE s

ValidColour(s) ==
    LET t == StripHash(s) IN Len(t) = 6 /\ \A k \in 1..6 : IsHexDigit(t[k])

\* channel k (1..3) of a string of six hex digits
ChannelOf(t, k) == 16 * HexVal(t[2 * k - 1]) + HexVal(t[2 * k])

DarkenCalled == d_pc \in {"returned", "panicked"}

\* the colour darken("not-a-color", 0.5) returns: #646464
FallbackColour == Darken(NotAColor, <<1, 2>>).val

\* C5: for every malformed colour string and every factor, darken returns
\* one fixed fallback colour, the one darken("not-a-color", 0.5) returns,
\* and never panics.
C5_MalformedGivesFallback ==
    (DarkenCalled /\ ~ValidColour(d_hex)) =>
        (d_pc = "returned" /\ d_out = FallbackColour)

\* C6: for every valid colour and every factor f with 0 < f <= 1, darken
\* returns '#' and six hex digits, each channel floor(input channel * f),
\* in 0..255 and at most the input channel.
C6_DarkenValid ==
    (DarkenCalled /\ ValidColour(d_hex)
        /\ 0 < d_amount[1] /\ d_amount[1] <= d_amount[2]) =>
        /\ d_pc = "returned"
        /\ Len(d_out) = 7
        /\ d_out[1] = "#"
        /\ \A k \in 2..7 : IsHexDigit(d_out[k])
        /\ \A k \in 1..3 :
             LET in  == ChannelOf(StripHash(d_hex), k)
                 out == ChannelOf(Tail(d_out), k)
             IN  /\ out = (in * d_amount[1]) \div d_amount[2]
                 /\ out \in 0..255
                 /\ out <= in

\* a valid colour with a '#' and an upper-case digit was darkened by 0.6
C6_Witness ==
    /\ d_pc = "returned"
    /\ d_hex = <<"#", "c", "6", "f", "f", "8", "B">>
    /\ d_amount = <<3, 5>>
    /\ d_out = <<"#", "7", "6", "9", "9", "5", "3">>

-----------------------------------------------------------------------------
(* The claims about draw_3d_heatmap. *)

TotalDays == SumSeq([x \in 1..Len(weeks) |-> Len(weeks[x])])

DayPresent(x, y) == x < Len(weeks) /\ y < Len(weeks[x + 1])

\* C1: for every grid, draw_3d_heatmap emits exactly 3 polygons for each
\* day present, 3 * (the sum of the weeks' day counts) in all: no cell is
\* skipped and none is invented.
C1_ThreeFacesPerDay ==
    /\ hpc # "panicked"
    /\ hpc = "done" =>
        /\ Len(hg) = 3 * TotalDays
        /\ \A i \in 1..Len(hg) : DayPresent(hg[i].x, hg[i].y)
        /\ \A x \in 1..Len(weeks) : \A y \in 1..Len(weeks[x]) :
             Cardinality({i \in 1..Len(hg) :
                            hg[i].x = x - 1 /\ hg[i].y = y - 1}) = 3

\* a grid with an empty week, weeks of unequal length and a zero count
C1_Witness ==
    /\ hpc = "done"
    /\ Len(weeks) >= 4
    /\ \E x \in 1..Len(weeks) : Len(weeks[x]) = 0
    /\ \E x \in 1..Len(weeks) : Len(weeks[x]) = MaxDays
    /\ \E x \in 1..Len(weeks) : \E y \in 1..Len(weeks[x]) : weeks[x][y] = 0
    /\ \E x \in 1..Len(weeks) : \E y \in 1..Len(weeks[x]) : weeks[x][y] # 0
    /\ Len(hg) = 3 * TotalDays

FaceOrder == <<"left", "right", "top">>

CellBefore(p, q) == p.x < q.x \/ (p.x = q.x /\ p.y < q.y)

\* C2: in the sequence of polygons the faces of a cell are contiguous, in
\* the order left, right, top, and the cells come column by column, row by
\* row within a column.  Stated on neighbours: each polygon has the face its
\* position asks for, the second and third of a triple are of the cell of
\* the first, and the cell of a triple is after the cell of the triple
\* before (the order of cells is transitive).
C2_DrawOrder ==
    \A i \in 1..Len(hg) :
        /\ hg[i].face = FaceOrder[((i - 1) % 3) + 1]
        /\ (i % 3 # 1) => (hg[i].x = hg[i - 1].x /\ hg[i].y = hg[i - 1].y)
        /\ (i % 3 = 1 /\ i > 1) => CellBefore(hg[i - 1], hg[i])

\* cells of one week and of several weeks were drawn
C2_Witness ==
    /\ hpc = "done"
    /\ \E i, j \in 1..Len(hg) :
         /\ hg[i].x = 0 /\ hg[i].y = 1
         /\ hg[j].x = 1 /\ hg[j].y = 0
         /\ i < j

\* the colours of the claim
ClaimColour(week_idx, count) ==
    IF count = 0 THEN <<"#", "e", "b", "e", "d", "f", "0">>
    ELSE IF week_idx \in 0..12 THEN <<"#", "c", "6", "e", "4", "8", "b">>
    ELSE IF week_idx \in 13..25 THEN <<"#", "f", "4", "e", "0", "4", "d">>
    ELSE IF week_idx \in 26..38 THEN <<"#", "a", "3", "a", "3", "a", "3">>
    ELSE <<"#", "d", "1", "a", "3", "d", "1">>

\* C10: the top face of a cell is filled #ebedf0 when its count is 0,
\* whatever the week; else by the week index: 0..12 #c6e48b, 13..25
\* #f4e04d, 26..38 #a3a3a3, 39 and above #d1a3d1.
C10_SeasonalColour ==
    \A i \in 1..Len(hg) :
        hg[i].face = "top" =>
            hg[i].fill = ClaimColour(hg[i].x, weeks[hg[i].x + 1][hg[i].y + 1])

\* a grid that reaches the last range, with a nonzero count at the first
\* week of every range and a zero count in the last range
C10_Witness ==
    /\ hpc = "done"
    /\ \A x \in {0, 12, 13, 25, 26, 38, 39} : \E i \in 1..Len(hg) :
         /\ hg[i].face = "top"
         /\ hg[i].x = x
         /\ weeks[x + 1][hg[i].y + 1] # 0
    /\ \E i \in 1..Len(hg) :
         /\ hg[i].face = "top"
         /\ hg[i].x >= 39
         /\ weeks[hg[i].x + 1][hg[i].y + 1] = 0
         /\ hg[i].fill = <<"#", "e", "b", "e", "d", "f", "0">>

-----------------------------------------------------------------------------
(* The claims about draw_donut_chart. *)

RECURSIVE SumOver(_, _)
SumOver(m, S) ==
    IF S = {} THEN 0
    ELSE LET k == CHOOSE k \in S : TRUE IN m[k] + SumOver(m, S \ {k})

\* the total magnitude of the mapping, as a number
TotalMagnitude == SumOver(lang_stats, DOMAIN lang_stats)

Paths(g) == SelectSeq(g, LAMBDA n : n.kind = "path")

\* equality of two f64 values that are numbers
EqF(a, b) ==
    /\ a.kind = "num"
    /\ b.kind = "num"
    /\ a.num * b.den = b.num * a.den

DonutCalled == dpc \in {"loop", "done", "panicked"}

\* C3: when the total magnitude is 0 the donut layer is empty: no slice and
\* no legend entry, no fault and no NaN angle.
C3_ZeroTotalEmptyLayer ==
    (DonutCalled /\ TotalMagnitude = 0) =>
        /\ dpc # "panicked"
        /\ dg = <<>>
        /\ current_angle.kind = "num"

\* C4: for a non-empty mapping of total magnitude T > 0 there is one slice
\* for each category, of the fraction magnitude/T of the turn; the first
\* starts at angle 0, each later one where the one before ended, and the
\* angles sum to one full turn.
C4_SlicesCloseTheTurn ==
    (DonutCalled /\ DOMAIN lang_stats # {} /\ TotalMagnitude > 0) =>
        /\ dpc # "panicked"
        /\ dpc = "done" =>
            LET sl == Paths(dg) IN
            /\ Len(sl) = Cardinality(DOMAIN lang_stats)
            /\ \A k \in 1..Len(sl) :
                 EqF(sl[k].angle, Num(lang_stats[sl[k].name], TotalMagnitude))
            /\ EqF(sl[1].start, Num(0, 1))
            /\ \A k \in 2..Len(sl) :
                 EqF(sl[k].start, AddF(sl[k - 1].start, sl[k - 1].angle))
            /\ EqF(current_angle, Num(1, 1))

\* C9: two calls on the same mapping, whatever the iteration orders of the
\* two maps, emit the same slices and the same legend positions.
C9_OrderReproducible ==
    (call = 2 /\ dpc = "done") => dg = first_dg

-----------------------------------------------------------------------------
(* The claims about draw_radar_chart. *)

DataPolygons == SelectSeq(rg, LAMBDA n : n.kind = "data")

\* C7: for 5 non-negative metrics the data polygon has exactly 5 vertices,
\* each radius in [0, max_r], 0 for the value 0, max_r for 9999 and more,
\* and non-decreasing in the value.  Radii are in eighths of a unit.
C7_RadarRadii ==
    (rpc = "done" /\ \A k \in 1..5 : stats[k] >= 0) =>
        /\ Len(DataPolygons) = 1
        /\ LET pts == DataPolygons[1].pts IN
            /\ Len(pts) = 5
            /\ \A k \in 1..5 :
                 /\ pts[k].i = k - 1
                 /\ pts[k].r.kind = "num"
                 /\ 0 <= pts[k].r.num /\ pts[k].r.num <= 8 * MaxR
                 /\ stats[k] = 0 => pts[k].r.num = 0
                 /\ stats[k] >= 9999 => pts[k].r.num = 8 * MaxR
            /\ \A j, k \in 1..5 :
                 stats[j] <= stats[k] => pts[j].r.num <= pts[k].r.num

\* the metrics 0, 3, 9998, 9999 and 50000 were drawn
C7_Witness ==
    /\ rpc = "done"
    /\ stats = <<0, 3, 9998, 9999, 50000>>
    /\ Len(data_points) = 5
    /\ data_points[2].r.num > 0
    /\ data_points[3].r.num < data_points[4].r.num

\* C8: when a metric is negative the call ends in an error and no data
\* polygon is produced.
C8_NegativeRejected ==
    (\E k \in 1..Len(stats) : stats[k] < 0) =>
        /\ rpc # "done"
        /\ Len(DataPolygons) = 0

=============================================================================
